---- MODULE Spec2Model ----
(***************************************************************************)
(* The rate-limited background blocking scheduler of src/main.py:          *)
(* start_auto_blocking (the cycle driver), auto_block_accounts (the quota  *)
(* tracker), and the request handlers that write the tables it reads       *)
(* (signup, connect_instagram, confirm_payment), with login beside them.   *)
(*                                                                         *)
(* The store is SQLite.  Each connection has its own pending transaction   *)
(* (Python's sqlite3 opens one implicitly before INSERT/UPDATE and keeps   *)
(* it open until commit, rollback or close); other connections see only    *)
(* committed rows, and one connection at a time holds the write lock.      *)
(***************************************************************************)
EXTENDS Integers, Sequences, FiniteSets, TLC

\* ------------------------------------------------------------- bounds
MaxUsers    == 2
MaxCycles   == 2
MaxPayments == 2
MaxCalls    == 102

\* -------------------------------------------------- program constants
DailyLimit  == 100
ResetAfter  == 600
Period      == 6
DayLen      == 86400

UserIds   == 1..MaxUsers
Procs     == {1, 2}
StartTime == DayLen - 2 * Period
MaxTime   == StartTime + MaxCycles * Period
Emails    == {"a@x", "b@x", "c@x"}
Legacy    == "@alice"
Instagram == "@instagram_acc"

VARIABLES
    now,                    \* datetime.utcnow(), in seconds
    users,                  \* table users: id -> [email, blocked_count]
    accounts,               \* table accounts: rows [user_id, username, is_connected]
    payment_history,        \* table payment_history: sequence of rows [user_id]
    daily_blocked_counts,   \* table daily_blocked_counts: rows [user_id, date, blocked]
    writeLock,              \* the connection holding SQLite's write lock, 0 if none
    txDaily,                \* per connection: uncommitted daily_blocked_counts rows
    txUsers,                \* per connection: uncommitted users.blocked_count values
    pc,                     \* per process: position in start_auto_blocking
    paid_users,             \* per process: the users of this cycle still to visit
    loc,                    \* per process: locals of auto_block_accounts
    written,                \* history: when each (user, day) row was last committed
    hist,                   \* history per process: this cycle and the running call
    errSnap,                \* history per user: counters before a call that failed in this cycle
    resp                    \* the request answered last while the driver sleeps, and its answer

vars == <<now, users, accounts, payment_history, daily_blocked_counts, writeLock,
          txDaily, txUsers, pc, paid_users, loc, written, hist, errSnap, resp>>

store   == <<users, accounts, payment_history, daily_blocked_counts, written>>
tables  == <<accounts, payment_history>>

\* ------------------------------------------------------------ helpers
None    == <<>>
Some(x) == <<x>>

\* today = datetime.utcnow().date().isoformat(): an ISO date TEXT, one per day
IsoDate(t) == [kind |-> "text", day |-> t \div DayLen]

Dates == {IsoDate(d * DayLen) : d \in 0..(MaxTime \div DayLen)}

\* datetime(date, 'unixepoch', 'localtime'): the modifier applies to a numeric
\* time value only; for a TEXT date SQLite answers NULL.
SqlDatetimeUnixepoch(date) ==
    IF date.kind = "number" THEN Some(date.day) ELSE None

NoLocals == [user |-> 0, blocked_count |-> 0, daily_count |-> 0,
             last_updated |-> None, today |-> IsoDate(0)]

NoCall == [user |-> 0, blocked_count |-> 0, blocked |-> 0, hadRow |-> FALSE,
           age |-> 0, date |-> IsoDate(0)]

NoHist == [invoked |-> {}, cycleFail |-> "none", abandoned |-> {},
           entry |-> NoCall, outcome |-> "none", calls |-> 0]

\* what a request handler answered: the case of the request, the HTTP status,
\* whether a token was returned, and the user whose rows it wrote (0: none)
Answer(h, c, code, tok, u) ==
    [handler |-> h, case |-> c, code |-> code, token |-> tok, user |-> u]

NoResponse == Answer("none", "none", 0, FALSE, 0)

\* ------------------------------------------------------- store reads
DailyRows(rows, u, d) == {r \in rows : r.user_id = u /\ r.date = d}

\* committed window counter of u on day d; 0 when there is no row
Window(u, d) ==
    IF DailyRows(daily_blocked_counts, u, d) = {} THEN 0
    ELSE (CHOOSE r \in DailyRows(daily_blocked_counts, u, d) : TRUE).blocked

HasRow(u, d) == DailyRows(daily_blocked_counts, u, d) # {}

\* what connection p reads: its own uncommitted rows first
ReadDaily(p, u, d) ==
    IF DailyRows(txDaily[p], u, d) # {} THEN DailyRows(txDaily[p], u, d)
    ELSE DailyRows(daily_blocked_counts, u, d)

ReadBlockedCount(p, u) ==
    IF \E w \in txUsers[p] : w.id = u
    THEN (CHOOSE w \in txUsers[p] : w.id = u).blocked_count
    ELSE users[u].blocked_count

\* INSERT OR REPLACE INTO daily_blocked_counts: one row per (user_id, date)
Upsert(rows, u, d, n) ==
    {r \in rows : ~(r.user_id = u /\ r.date = d)}
        \cup {[user_id |-> u, date |-> d, blocked |-> n]}


\* ------------------------------------------------- eligibility reads
HasPayment(u) ==
    \E i \in 1..Len(payment_history) : payment_history[i].user_id = u

RECURSIVE Ascending(_)
Ascending(S) ==
    IF S = {} THEN <<>>
    ELSE LET m == CHOOSE x \in S : \A y \in S : x <= y
         IN  <<m>> \o Ascending(S \ {m})

\* SELECT id FROM users WHERE EXISTS (SELECT 1 FROM payment_history ...):
\* a scan of users in rowid order
SelectPaidUsers == Ascending({u \in DOMAIN users : HasPayment(u)})

AccountRows(u) == {a \in accounts : a.user_id = u}

\* the primary-key index (user_id, username) orders a user's rows by username
UsernameRank(name) == IF name = Legacy THEN 1 ELSE 2

\* cursor.fetchone() after SELECT is_connected FROM accounts WHERE user_id = ?
FetchOneAccount(u) ==
    IF AccountRows(u) = {} THEN None
    ELSE Some(CHOOSE a \in AccountRows(u) :
                \A b \in AccountRows(u) : UsernameRank(a.username) <= UsernameRank(b.username))

\* if is_connected and is_connected["is_connected"]
IsConnected(u) ==
    /\ FetchOneAccount(u) # None
    /\ FetchOneAccount(u)[1].is_connected

\* ------------------------------------------------ auto_block_accounts
\* variants of the limit test: the cap itself admitted, and no test at all
BelowLimitInclusive(n) == n <= DailyLimit

BelowLimitMissing(n) == TRUE

BelowLimit(n) == n < DailyLimit

\* daily_record["blocked"] if daily_record else 0
DailyCountOf(rows) ==
    IF rows = {} THEN 0 ELSE (CHOOSE r \in rows : TRUE).blocked

\* daily_record["last_updated"] if daily_record else None
LastUpdatedOf(rows) ==
    IF rows = {} THEN None ELSE SqlDatetimeUnixepoch((CHOOSE r \in rows : TRUE).date)

\* if last_updated: ... (utcnow() - last_time).total_seconds() > 600
ResetDue(last_updated, t) ==
    /\ last_updated # None
    /\ t - last_updated[1] > ResetAfter

\* variant: the lifetime counter left as it was read
NextBlockedCountStale(n) == n

NextBlockedCount(n) == n + 1

\* variant: the row is written before daily_count is raised
NextDailyCountStale(n) == n

NextDailyCount(n) == n + 1

\* variant: the window counter bound to the UPDATE in place of the lifetime one
UpdatedBlockedCountWrongLocal(l) == l.daily_count

\* the value bound to UPDATE users SET blocked_count = ?
UpdatedBlockedCount(l) == l.blocked_count

Rollback(p) ==
    /\ txDaily' = [txDaily EXCEPT ![p] = {}]
    /\ txUsers' = [txUsers EXCEPT ![p] = {}]
    /\ writeLock' = IF writeLock = p THEN 0 ELSE writeLock

\* history: the committed counters of u as a call for u starts
Snapshot(u) ==
    [user |-> u, blocked_count |-> users[u].blocked_count,
     blocked |-> Window(u, IsoDate(now)), hadRow |-> HasRow(u, IsoDate(now)),
     age |-> IF HasRow(u, IsoDate(now)) THEN now - written[<<u, IsoDate(now)>>] ELSE 0,
     date |-> IsoDate(now)]

\* sqlite3.connect(...); the previous cycle's connection, if it was left open
\* by an aborted cycle, is dropped here and its transaction rolled back
Connect(p) ==
    /\ pc[p] = "connect"
    /\ Rollback(p)
    /\ pc' = [pc EXCEPT ![p] = "list"]
    /\ UNCHANGED <<now, resp, store, paid_users, loc, hist, errSnap>>

\* paid_users = cursor.fetchall()
SelectPaid(p) ==
    /\ pc[p] = "list"
    /\ paid_users' = [paid_users EXCEPT ![p] = SelectPaidUsers]
    /\ pc' = [pc EXCEPT ![p] = "loop"]
    /\ UNCHANGED <<now, resp, store, writeLock, txDaily, txUsers, loc, hist, errSnap>>

\* for user in paid_users: the account lookup and the test of its first row
Lookup(p) ==
    /\ pc[p] = "loop"
    /\ paid_users[p] # <<>>
    /\ LET u == Head(paid_users[p]) IN
       IF IsConnected(u)
       THEN /\ pc' = [pc EXCEPT ![p] = "s1"]
            /\ loc' = [loc EXCEPT ![p].user = u]
            /\ hist' = [hist EXCEPT ![p].invoked = @ \cup {u},
                                    ![p].entry = Snapshot(u),
                                    ![p].outcome = "running"]
            /\ errSnap' = [errSnap EXCEPT ![u] = None]
            /\ UNCHANGED paid_users
       ELSE /\ paid_users' = [paid_users EXCEPT ![p] = Tail(@)]
            /\ UNCHANGED <<pc, loc, hist, errSnap>>
    /\ UNCHANGED <<now, resp, store, writeLock, txDaily, txUsers>>

\* SELECT blocked_count FROM users WHERE id = ?
SelectUser(p) ==
    /\ pc[p] = "s1"
    /\ loc' = [loc EXCEPT ![p].blocked_count = ReadBlockedCount(p, loc[p].user)]
    /\ pc' = [pc EXCEPT ![p] = "s2"]
    /\ UNCHANGED <<now, resp, store, writeLock, txDaily, txUsers, paid_users, hist, errSnap>>

\* today = ...; SELECT blocked, datetime(date, 'unixepoch', 'localtime') ...
SelectDaily(p) ==
    /\ pc[p] = "s2"
    /\ LET rows == ReadDaily(p, loc[p].user, IsoDate(now)) IN
       loc' = [loc EXCEPT ![p].today = IsoDate(now),
                          ![p].daily_count = DailyCountOf(rows),
                          ![p].last_updated = LastUpdatedOf(rows)]
    /\ pc' = [pc EXCEPT ![p] = "chk"]
    /\ UNCHANGED <<now, resp, store, writeLock, txDaily, txUsers, paid_users, hist, errSnap>>

\* if daily_count < 100: the reset of a window older than ten minutes
CheckLimit(p) ==
    /\ pc[p] = "chk"
    /\ IF BelowLimit(loc[p].daily_count)
       THEN /\ pc' = [pc EXCEPT ![p] = "w1"]
            /\ IF ResetDue(loc[p].last_updated, now)
               THEN /\ writeLock \in {0, p}
                    /\ writeLock' = p
                    /\ loc' = [loc EXCEPT ![p].daily_count = 0]
                    /\ txDaily' = [txDaily EXCEPT
                                     ![p] = Upsert(@, loc[p].user, loc[p].today, 0)]
               ELSE UNCHANGED <<writeLock, loc, txDaily>>
            /\ UNCHANGED hist
       ELSE /\ pc' = [pc EXCEPT ![p] = "ret"]
            /\ hist' = [hist EXCEPT ![p].outcome = "noop"]
            /\ UNCHANGED <<writeLock, loc, txDaily>>
    /\ UNCHANGED <<now, resp, store, txUsers, paid_users, errSnap>>

\* if daily_count < 100: blocked_count += 1; daily_count += 1; INSERT OR REPLACE
InsertDaily(p) ==
    /\ pc[p] = "w1"
    /\ IF BelowLimit(loc[p].daily_count)
       THEN /\ writeLock \in {0, p}
            /\ writeLock' = p
            /\ loc' = [loc EXCEPT ![p].blocked_count = NextBlockedCount(@),
                                  ![p].daily_count = NextDailyCount(@)]
            /\ txDaily' = [txDaily EXCEPT
                             ![p] = Upsert(@, loc[p].user, loc[p].today,
                                           NextDailyCount(loc[p].daily_count))]
            /\ pc' = [pc EXCEPT ![p] = "w2"]
            /\ UNCHANGED hist
       ELSE /\ pc' = [pc EXCEPT ![p] = "ret"]
            /\ hist' = [hist EXCEPT ![p].outcome = "noop"]
            /\ UNCHANGED <<writeLock, loc, txDaily>>
    /\ UNCHANGED <<now, resp, store, txUsers, paid_users, errSnap>>

\* UPDATE users SET blocked_count = ? WHERE id = ?
UpdateUsers(p) ==
    /\ pc[p] = "w2"
    /\ txUsers' = [txUsers EXCEPT
                     ![p] = {w \in @ : w.id # loc[p].user}
                              \cup {[id |-> loc[p].user,
                                     blocked_count |-> UpdatedBlockedCount(loc[p])]}]
    /\ pc' = [pc EXCEPT ![p] = "cm"]
    /\ UNCHANGED <<now, resp, store, writeLock, txDaily, paid_users, loc, hist, errSnap>>

\* db.commit(): everything pending on the connection becomes visible
Commit(p) ==
    /\ pc[p] = "cm"
    /\ daily_blocked_counts' =
         {r \in daily_blocked_counts : DailyRows(txDaily[p], r.user_id, r.date) = {}}
             \cup txDaily[p]
    /\ users' = [u \in DOMAIN users |->
                   IF \E w \in txUsers[p] : w.id = u
                   THEN [users[u] EXCEPT !.blocked_count = ReadBlockedCount(p, u)]
                   ELSE users[u]]
    /\ written' = [k \in DOMAIN written |->
                     IF DailyRows(txDaily[p], k[1], k[2]) # {} THEN now ELSE written[k]]
    /\ Rollback(p)
    /\ hist' = [hist EXCEPT ![p].outcome = "ok"]
    /\ pc' = [pc EXCEPT ![p] = "ret"]
    /\ UNCHANGED <<now, resp, tables, paid_users, loc, errSnap>>

\* the call returns to the loop of start_auto_blocking
Return(p) ==
    /\ pc[p] = "ret"
    /\ paid_users' = [paid_users EXCEPT ![p] = Tail(@)]
    /\ loc' = [loc EXCEPT ![p] = NoLocals]
    /\ hist' = [hist EXCEPT ![p].entry = NoCall, ![p].outcome = "none"]
    /\ pc' = [pc EXCEPT ![p] = "loop"]
    /\ UNCHANGED <<now, resp, store, writeLock, txDaily, txUsers, errSnap>>

\* except sqlite3.Error in auto_block_accounts: logged, nothing rolled back by
\* the code; SQLite itself drops the whole transaction for some errors
CallError(p) ==
    /\ pc[p] \in {"s1", "s2", "w1", "w2", "cm"}
    /\ \E dropped \in BOOLEAN :
         IF dropped THEN Rollback(p) ELSE UNCHANGED <<writeLock, txDaily, txUsers>>
    /\ hist' = [hist EXCEPT ![p].outcome = "error"]
    /\ errSnap' = [errSnap EXCEPT ![loc[p].user] = Some(hist[p].entry)]
    /\ pc' = [pc EXCEPT ![p] = "ret"]
    /\ UNCHANGED <<now, resp, store, paid_users, loc>>

\* history: the users after the failing one that the loop would have passed on
\* to auto_block_accounts
Unvisited(rest) == {u \in DOMAIN users : IsConnected(u) /\ \E i \in 1..Len(rest) : rest[i] = u}

\* variant: no handler around the cycle, the exception ends the task
CycleErrorUncaught(p) ==
    /\ \/ pc[p] \in {"connect", "list"}
       \/ pc[p] = "loop" /\ paid_users[p] # <<>>
    /\ pc' = [pc EXCEPT ![p] = "dead"]
    /\ UNCHANGED <<now, resp, store, writeLock, txDaily, txUsers, paid_users, loc, hist, errSnap>>

\* except Exception in start_auto_blocking: the cycle is abandoned, the
\* connection is not closed
CycleError(p) ==
    /\ \/ pc[p] \in {"connect", "list"}
       \/ pc[p] = "loop" /\ paid_users[p] # <<>>
    /\ hist' = [hist EXCEPT
                  ![p].cycleFail = IF pc[p] = "loop" THEN "lookup" ELSE pc[p],
                  ![p].abandoned = IF pc[p] = "loop" THEN Unvisited(Tail(paid_users[p]))
                                   ELSE {}]
    /\ pc' = [pc EXCEPT ![p] = "sleep"]
    /\ UNCHANGED <<now, resp, store, writeLock, txDaily, txUsers, paid_users, loc, errSnap>>

\* conn.close() after the loop: an open transaction is rolled back
Close(p) ==
    /\ pc[p] = "loop"
    /\ paid_users[p] = <<>>
    /\ Rollback(p)
    /\ pc' = [pc EXCEPT ![p] = "sleep"]
    /\ UNCHANGED <<now, resp, store, paid_users, loc, hist, errSnap>>

\* await asyncio.sleep(6), then the next pass of while True
Sleep(p) ==
    /\ pc[p] = "sleep"
    /\ resp = NoResponse
    /\ now + Period <= MaxTime
    /\ now' = now + Period
    /\ pc' = [pc EXCEPT ![p] = "connect"]
    /\ paid_users' = [paid_users EXCEPT ![p] = <<>>]
    /\ hist' = [hist EXCEPT ![p] = NoHist]
    /\ errSnap' = [u \in UserIds |-> None]
    /\ UNCHANGED <<resp, store, writeLock, txDaily, txUsers, loc>>

\* the same sleep once the clock has reached the horizon of the model: time
\* beyond MaxTime is not counted
SleepHorizon(p) ==
    /\ pc[p] = "sleep"
    /\ resp = NoResponse
    /\ now + Period > MaxTime
    /\ pc' = [pc EXCEPT ![p] = "connect"]
    /\ paid_users' = [paid_users EXCEPT ![p] = <<>>]
    /\ hist' = [hist EXCEPT ![p] = NoHist]
    /\ errSnap' = [u \in UserIds |-> None]
    /\ UNCHANGED <<now, resp, store, writeLock, txDaily, txUsers, loc>>

\* ---------------------------------------------------- request handlers
\* The handlers are coroutines of the same event loop as the cycle driver and
\* none of them awaits between its statements: each runs as one step, while
\* the driver is in asyncio.sleep, and its answer goes out before the loop
\* takes the next request or resumes the driver.  A write waits for the
\* write lock.
HandlerMayRun == pc[1] = "sleep" /\ resp = NoResponse

\* An HTTPException raised inside the try body of a handler is an Exception:
\* unless an earlier except clause names its class, the last clause,
\* except Exception, catches it and raises HTTPException(500) in its place.
ExceptException(code) == 500

\* signup: 400 when the email is registered, else INSERT INTO users
\* (..., blocked_count) VALUES (..., 0) and commit
Signup(e) ==
    /\ HandlerMayRun
    /\ IF \E u \in DOMAIN users : users[u].email = e
       THEN /\ resp' = Answer("signup", "registered", ExceptException(400), FALSE, 0)
            /\ UNCHANGED users
       ELSE /\ writeLock = 0
            /\ Cardinality(DOMAIN users) < MaxUsers
            /\ users' = [u \in 1..(Cardinality(DOMAIN users) + 1) |->
                           IF u \in DOMAIN users THEN users[u]
                           ELSE [email |-> e, blocked_count |-> 0]]
            /\ resp' = Answer("signup", "new", 200, FALSE, 0)
    /\ UNCHANGED <<now, tables, daily_blocked_counts, written, writeLock, txDaily,
                   txUsers, pc, paid_users, loc, hist, errSnap>>

\* login: 401 when there is no row for the email or pwd_context.verify says
\* the password does not match the stored hash (verified is its result), else
\* a token for the user
Login(e, verified) ==
    /\ HandlerMayRun
    /\ resp' = IF ~(\E u \in DOMAIN users : users[u].email = e)
               THEN Answer("login", "unknown_email", ExceptException(401), FALSE, 0)
               ELSE IF ~verified
               THEN Answer("login", "wrong_password", ExceptException(401), FALSE, 0)
               ELSE Answer("login", "ok", 200, TRUE, 0)
    /\ UNCHANGED <<now, store, writeLock, txDaily, txUsers, pc, paid_users, loc,
                   hist, errSnap>>

\* connect_instagram: INSERT OR REPLACE INTO accounts (user_id, "@instagram_acc", True)
ConnectInstagram(u) ==
    /\ HandlerMayRun
    /\ writeLock = 0
    /\ u \in DOMAIN users
    /\ accounts' = {a \in accounts : ~(a.user_id = u /\ a.username = Instagram)}
                     \cup {[user_id |-> u, username |-> Instagram, is_connected |-> TRUE]}
    /\ accounts' # accounts
    /\ resp' = Answer("connect_instagram", "ok", 200, FALSE, u)
    /\ UNCHANGED <<now, users, payment_history, daily_blocked_counts, written, writeLock,
                   txDaily, txUsers, pc, paid_users, loc, hist, errSnap>>

\* what stripe.PaymentIntent.retrieve gives: an intent with a status, or a
\* StripeError raised
IntentStatuses == {"succeeded", "processing", "canceled"}
StripeError    == "StripeError"

\* variant: an intent still being processed taken for a payment
SucceededOrProcessing(st) == st \in {"succeeded", "processing"}

\* if payment_intent.status == "succeeded"
Succeeded(st) == st = "succeeded"

\* confirm_payment for the user of the token: INSERT INTO payment_history and
\* commit for a succeeded intent; 400 raised in the try body for any other
\* status; 400 raised by the except clause for a StripeError
ConfirmPayment(u, r) ==
    /\ HandlerMayRun
    /\ u \in DOMAIN users
    /\ IF r = StripeError
       THEN /\ resp' = Answer("confirm_payment", r, 400, FALSE, 0)
            /\ UNCHANGED payment_history
       ELSE IF Succeeded(r)
       THEN /\ writeLock = 0
            /\ Len(payment_history) < MaxPayments
            /\ payment_history' = Append(payment_history, [user_id |-> u])
            /\ resp' = Answer("confirm_payment", r, 200, FALSE, u)
       ELSE /\ resp' = Answer("confirm_payment", r, ExceptException(400), FALSE, 0)
            /\ UNCHANGED payment_history
    /\ UNCHANGED <<now, users, accounts, daily_blocked_counts, written, writeLock,
                   txDaily, txUsers, pc, paid_users, loc, hist, errSnap>>

\* the answer is sent to the client
Reply ==
    /\ resp # NoResponse
    /\ resp' = NoResponse
    /\ UNCHANGED <<now, store, writeLock, txDaily, txUsers, pc, paid_users, loc,
                   hist, errSnap>>

\* ------------------------------------------------------ specification
InitWindows == {0, DailyLimit - 1, DailyLimit}
InitAges    == {ResetAfter - Period, ResetAfter + 1}

\* The store of a deployment that has run for a while: one registered user who
\* has paid, possibly with an accounts row from before the is_connected
\* migration (src/db.py sets is_connected = 0 on those), possibly connected,
\* with today's window anywhere up to the cap.
InitStore(t) ==
    /\ \E w \in InitWindows, age \in InitAges :
         /\ users = [u \in {1} |-> [email |-> "a@x", blocked_count |-> w]]
         /\ daily_blocked_counts =
              IF w = 0 THEN {}
              ELSE {[user_id |-> 1, date |-> IsoDate(t), blocked |-> w]}
         /\ written = [k \in UserIds \X Dates |->
                         IF w # 0 /\ k = <<1, IsoDate(t)>>
                         THEN t - age ELSE 0]
         /\ w = 0 => age = ResetAfter + 1
    /\ accounts \in SUBSET {[user_id |-> 1, username |-> Legacy, is_connected |-> FALSE],
                            [user_id |-> 1, username |-> Instagram, is_connected |-> TRUE]}
    /\ payment_history = <<[user_id |-> 1]>>

InitCommon(t) ==
    /\ now = t
    /\ InitStore(t)
    /\ writeLock = 0
    /\ txDaily = [p \in Procs |-> {}]
    /\ txUsers = [p \in Procs |-> {}]
    /\ paid_users = [p \in Procs |-> <<>>]
    /\ loc = [p \in Procs |-> NoLocals]
    /\ hist = [p \in Procs |-> NoHist]
    /\ errSnap = [u \in UserIds |-> None]
    /\ resp = NoResponse

\* one server process: one cycle driver (startup_event creates one task)
Init ==
    /\ InitCommon(StartTime)
    /\ pc = [p \in Procs |-> IF p = 1 THEN "connect" ELSE "off"]

Cycle(p) ==
    \/ Connect(p)
    \/ SelectPaid(p)
    \/ Lookup(p)
    \/ SelectUser(p)
    \/ SelectDaily(p)
    \/ CheckLimit(p)
    \/ InsertDaily(p)
    \/ UpdateUsers(p)
    \/ Commit(p)
    \/ Return(p)
    \/ CallError(p)
    \/ CycleError(p)
    \/ Close(p)

Driver(p) == Cycle(p) \/ Sleep(p)

Handlers ==
    \/ \E e \in Emails : Signup(e)
    \/ \E e \in Emails, verified \in BOOLEAN : Login(e, verified)
    \/ \E u \in UserIds : ConnectInstagram(u)
    \/ \E u \in UserIds, r \in IntentStatuses \cup {StripeError} : ConfirmPayment(u, r)
    \/ Reply

Next == Driver(1) \/ Handlers

Spec == Init /\ [][Next]_vars


\* two server processes on one database file (two workers), each with its own
\* cycle driver and its own connection
InitConc ==
    /\ InitCommon(StartTime)
    /\ HasPayment(1)
    /\ IsConnected(1)
    /\ pc = [p \in Procs |-> "connect"]

NextConc == \E p \in Procs : Driver(p)

ConcSpec == InitConc /\ [][NextConc]_vars

\* the single driver, followed past the horizon of the clock; the event loop
\* keeps scheduling the task, and asyncio.sleep returns
InitLive ==
    /\ InitCommon(MaxTime)
    /\ pc = [p \in Procs |-> IF p = 1 THEN "connect" ELSE "off"]

NextLive == Cycle(1) \/ SleepHorizon(1)

LiveSpec == InitLive /\ [][NextLive]_vars /\ WF_vars(NextLive)

\* a caller that invokes auto_block_accounts(1, db) again and again on one
\* connection while the clock stands still, on a store that raises no error:
\* user 1 starts with lifetime counter 0 and no row for today
InitBurst ==
    /\ now = StartTime
    /\ users = [u \in {1} |-> [email |-> "a@x", blocked_count |-> 0]]
    /\ daily_blocked_counts = {}
    /\ written = [k \in UserIds \X Dates |-> 0]
    /\ accounts = {[user_id |-> 1, username |-> Instagram, is_connected |-> TRUE]}
    /\ payment_history = <<[user_id |-> 1]>>
    /\ writeLock = 0
    /\ txDaily = [p \in Procs |-> {}]
    /\ txUsers = [p \in Procs |-> {}]
    /\ paid_users = [p \in Procs |-> <<>>]
    /\ loc = [p \in Procs |-> IF p = 1 THEN [NoLocals EXCEPT !.user = 1] ELSE NoLocals]
    /\ hist = [p \in Procs |->
                 IF p = 1 THEN [NoHist EXCEPT !.entry = Snapshot(1),
                                              !.outcome = "running",
                                              !.calls = 1]
                 ELSE NoHist]
    /\ errSnap = [u \in UserIds |-> None]
    /\ resp = NoResponse
    /\ pc = [p \in Procs |-> IF p = 1 THEN "s1" ELSE "off"]

\* the call has returned and the caller makes the next one for the same user
CallAgain(p) ==
    /\ pc[p] = "ret"
    /\ hist[p].calls < MaxCalls
    /\ loc' = [loc EXCEPT ![p] = [NoLocals EXCEPT !.user = loc[p].user]]
    /\ hist' = [hist EXCEPT ![p].entry = Snapshot(loc[p].user),
                            ![p].outcome = "running",
                            ![p].calls = @ + 1]
    /\ pc' = [pc EXCEPT ![p] = "s1"]
    /\ UNCHANGED <<now, resp, store, writeLock, txDaily, txUsers, paid_users, errSnap>>

NextBurst ==
    \/ SelectUser(1)
    \/ SelectDaily(1)
    \/ CheckLimit(1)
    \/ InsertDaily(1)
    \/ UpdateUsers(1)
    \/ Commit(1)
    \/ CallAgain(1)

BurstSpec == InitBurst /\ [][NextBurst]_vars

\* ---------------------------------------------------------- properties
InCall(p) == pc[p] \in {"s1", "s2", "chk", "w1", "w2", "cm", "ret"}

\* nothing of user u is pending on connection p
NothingPending(p, u) ==
    /\ \A r \in txDaily[p] : r.user_id # u
    /\ \A w \in txUsers[p] : w.id # u

\* the spec's eligibility: a payment record and some connected account row
Eligible(u) ==
    /\ HasPayment(u)
    /\ \E a \in AccountRows(u) : a.is_connected

\* C1: a call for a user whose window counter for today is 100 and was last
\* written less than 600 seconds ago records no increment: all through the
\* call, and when it returns, the lifetime counter and today's window counter
\* are what they were and nothing of the user is pending.
C1_AtCapNoIncrement ==
    \A p \in Procs :
        LET e == hist[p].entry IN
        (InCall(p) /\ e.hadRow /\ e.blocked = DailyLimit /\ e.age < ResetAfter)
            => /\ hist[p].outcome # "ok"
               /\ users[e.user].blocked_count = e.blocked_count
               /\ Window(e.user, e.date) = e.blocked
               /\ NothingPending(p, e.user)

C1_Witness ==
    /\ pc[1] = "ret"
    /\ hist[1].entry.hadRow
    /\ hist[1].entry.blocked = DailyLimit
    /\ hist[1].entry.age < ResetAfter
    /\ hist[1].outcome = "noop"

\* C2: a call for a user whose window counter for today is 100 and was last
\* written 600 seconds or more ago, and that meets no persistence error,
\* reports success with the window counter at 1 and the lifetime counter
\* raised by 1.
C2_AtCapResetAfterWindow ==
    \A p \in Procs :
        LET e == hist[p].entry IN
        (pc[p] = "ret" /\ e.hadRow /\ e.blocked = DailyLimit /\ e.age >= ResetAfter
                       /\ hist[p].outcome # "error")
            => /\ hist[p].outcome = "ok"
               /\ Window(e.user, e.date) = 1
               /\ users[e.user].blocked_count = e.blocked_count + 1

\* C3: a call for a user with no row for today (window counter below 100, no
\* prior timestamp) that meets no persistence error records an increment:
\* today's window counter is 1 and the lifetime counter is one more than before.
C3_FirstIncrementOfDay ==
    \A p \in Procs :
        LET e == hist[p].entry IN
        (pc[p] = "ret" /\ ~e.hadRow /\ hist[p].outcome # "error")
            => /\ hist[p].outcome = "ok"
               /\ HasRow(e.user, e.date)
               /\ Window(e.user, e.date) = 1
               /\ users[e.user].blocked_count = e.blocked_count + 1

C3_Witness ==
    /\ pc[1] = "ret"
    /\ ~hist[1].entry.hadRow
    /\ hist[1].outcome = "ok"
    /\ Window(hist[1].entry.user, hist[1].entry.date) = 1
    /\ users[hist[1].entry.user].blocked_count > 1

\* C5: when the loop of a cycle has passed every paid user without an
\* exception, auto_block_accounts was called for user u in this cycle if and
\* only if u has a payment record and at least one connected account row.
C5_InvokedIffEligible ==
    \A p \in Procs :
        (pc[p] = "loop" /\ paid_users[p] = <<>>)
            => \A u \in DOMAIN users : (u \in hist[p].invoked) <=> Eligible(u)

\* C6: after a persistence error in the call for user u, and until the next
\* cycle begins, every committed store state shows u's window counter and
\* lifetime counter as they were before the failed call.
C6_NoPartialApplication ==
    \A u \in UserIds :
        errSnap[u] # None
            => /\ users[u].blocked_count = errSnap[u][1].blocked_count
               /\ Window(u, errSnap[u][1].date) = errSnap[u][1].blocked

\* C7: a cycle never ends with a user left unvisited for whom the loop would
\* have called auto_block_accounts: a failure while one user is processed
\* does not keep the later users of the cycle from being processed.
C7_RestOfCycleProcessed ==
    \A p \in Procs : hist[p].abandoned = {}

\* C9: the lifetime counter is 0 for a user just signed up, never negative,
\* never lowered by any step, and changed only by the commit of
\* auto_block_accounts.
C9_LifetimeMonotone ==
    /\ [](\A u \in DOMAIN users : users[u].blocked_count >= 0)
    /\ [][/\ \A u \in DOMAIN users :
               /\ u \in DOMAIN users'
               /\ users'[u].blocked_count >= users[u].blocked_count
               /\ users'[u].blocked_count # users[u].blocked_count
                     => \E p \in Procs : pc[p] = "cm" /\ pc'[p] = "ret"
          /\ \A u \in DOMAIN users' \ DOMAIN users : users'[u].blocked_count = 0
         ]_vars

C9_Witness ==
    /\ 2 \in DOMAIN users
    /\ users[2].blocked_count = 2
    /\ users[1].blocked_count = DailyLimit + 1

\* C10: every committed window counter, of any user and day, is in 0..100.
C10_WindowInRange ==
    \A r \in daily_blocked_counts : r.blocked \in 0..DailyLimit

C10_Witness ==
    \E p \in Procs :
        /\ pc[p] = "ret"
        /\ hist[p].outcome = "ok"
        /\ hist[p].entry.blocked = DailyLimit - 1
        /\ Window(hist[p].entry.user, hist[p].entry.date) = DailyLimit


\* C4: two calls for the same user that both found today's window counter at
\* 99 and met no persistence error do not both record an increment: exactly
\* one does, and the window counter ends at 100.
C4_OneSlotOneWinner ==
    LET e1 == hist[1].entry
        e2 == hist[2].entry
    IN  (/\ pc[1] = "ret" /\ pc[2] = "ret"
         /\ e1.user = e2.user /\ e1.date = e2.date
         /\ e1.blocked = DailyLimit - 1 /\ e2.blocked = DailyLimit - 1
         /\ hist[1].outcome # "error" /\ hist[2].outcome # "error")
            => /\ (hist[1].outcome = "ok") # (hist[2].outcome = "ok")
               /\ Window(e1.user, e1.date) = DailyLimit

\* C8: every cycle, completed or abandoned on an exception, ends in the sleep
\* of the driver, and every sleep is followed by the start of a new cycle.
C8_CyclesGoOn ==
    /\ (pc[1] # "sleep") ~> (pc[1] = "sleep")
    /\ (pc[1] = "sleep") ~> (pc[1] = "connect")

C8_Witness ==
    /\ pc[1] = "sleep"
    /\ hist[1].cycleFail = "lookup"
    /\ now = MaxTime

\* C11: payment_history changes only by confirm_payment, and only when the
\* processor reported the intent as "succeeded": the step appends one record,
\* for the user of the request.  A request answered for any other status, or
\* for a processor error, leaves payment_history as it was, so no user comes
\* to have a payment record without a succeeded payment.
C11_PaidOnlyOnSucceeded ==
    [][/\ payment_history' # payment_history
            => /\ resp = NoResponse
               /\ resp'.handler = "confirm_payment"
               /\ resp'.case = "succeeded"
               /\ payment_history' = Append(payment_history, [user_id |-> resp'.user])
       /\ (resp = NoResponse /\ resp'.handler = "confirm_payment"
                             /\ resp'.case # "succeeded")
            => payment_history' = payment_history
       /\ \A u \in UserIds :
            ((\E i \in 1..Len(payment_history') : payment_history'[i].user_id = u)
                /\ ~HasPayment(u))
               => resp'.case = "succeeded" /\ resp'.user = u
      ]_vars

C11_Witness ==
    /\ resp.handler = "confirm_payment"
    /\ resp.case = "processing"
    /\ Len(payment_history) = 2
    /\ HasPayment(2)

\* C12: from lifetime counter 0 and no row for today, with the clock standing
\* still, each of the first 100 consecutive calls records an increment, the
\* n-th leaving both counters at n, so that the 100th leaves them at 100; the
\* 101st call, and any later one, records nothing and leaves them at 100.
C12_HundredThenRefused ==
    LET e == hist[1].entry
        n == hist[1].calls
    IN  pc[1] = "ret"
            => IF n <= DailyLimit
               THEN /\ hist[1].outcome = "ok"
                    /\ users[e.user].blocked_count = n
                    /\ Window(e.user, e.date) = n
               ELSE /\ hist[1].outcome = "noop"
                    /\ users[e.user].blocked_count = DailyLimit
                    /\ Window(e.user, e.date) = DailyLimit

C12_Witness ==
    /\ pc[1] = "ret"
    /\ hist[1].calls = DailyLimit + 1
    /\ hist[1].outcome = "noop"
    /\ hist[1].entry.blocked_count = DailyLimit
    /\ users[1].blocked_count = DailyLimit
    /\ Window(1, IsoDate(now)) = DailyLimit
    /\ now = StartTime

\* C13: a call that finds today's window counter at c with 0 < c < 100 and
\* meets no persistence error records an increment, raising the lifetime
\* counter by 1; the window counter ends at 1 when the row was last written
\* more than 600 seconds ago (reset, then incremented), and at c + 1 when it
\* was written at most 600 seconds ago.
C13_StaleWindowRestarts ==
    \A p \in Procs :
        LET e == hist[p].entry IN
        (pc[p] = "ret" /\ e.hadRow /\ 0 < e.blocked /\ e.blocked < DailyLimit
                       /\ hist[p].outcome # "error")
            => /\ hist[p].outcome = "ok"
               /\ users[e.user].blocked_count = e.blocked_count + 1
               /\ Window(e.user, e.date) = IF e.age > ResetAfter THEN 1
                                           ELSE e.blocked + 1

\* C14: under any interleaving of calls for the same user the lifetime counter
\* is its initial value plus the number of calls that recorded an increment:
\* every commit by which a call records an increment leaves the committed
\* lifetime counter of its user exactly one above what the store held just
\* before, and no step lowers a lifetime counter.
C14_NoLostUpdate ==
    [][/\ \A p \in Procs :
            (pc[p] = "cm" /\ pc'[p] = "ret" /\ hist'[p].outcome = "ok")
               => users'[loc[p].user].blocked_count
                     = users[loc[p].user].blocked_count + 1
       /\ \A u \in DOMAIN users :
            users'[u].blocked_count >= users[u].blocked_count
      ]_vars

\* the sum of the blocked column over a set of daily_blocked_counts rows
RECURSIVE SumBlocked(_)
SumBlocked(rows) ==
    IF rows = {} THEN 0
    ELSE LET r == CHOOSE x \in rows : TRUE
         IN  r.blocked + SumBlocked(rows \ {r})

\* C15: in every committed store state the lifetime counter of every user is
\* at least the sum of the user's window counters over all days.
C15_LifetimeCoversWindows ==
    \A u \in DOMAIN users :
        users[u].blocked_count
            >= SumBlocked({r \in daily_blocked_counts : r.user_id = u})

\* C16: a login for an unknown email or with a wrong password is answered 401
\* and returns no token; a signup for a registered email is answered 400 and
\* leaves the users table as it was: the caller receives the status chosen
\* where the error was raised.
C16_RaisedStatusIsAnswered ==
    [][/\ (resp = NoResponse /\ resp'.handler = "login"
                             /\ resp'.case \in {"unknown_email", "wrong_password"})
            => resp'.code = 401 /\ ~resp'.token
       /\ (resp = NoResponse /\ resp'.handler = "signup"
                             /\ resp'.case = "registered")
            => resp'.code = 400 /\ users' = users
      ]_vars

====
